---- MODULE Spec2Model ----
(***************************************************************************)
(* Bearer-token (JWT) validation gate of actix_jwt: src/src/auth.rs.       *)
(*                                                                         *)
(* validator(validation, jwks) builds the closure that the bearer          *)
(* middleware calls per request; the closure clones the captured policy    *)
(* and key store and runs v, which                                         *)
(*   1. decode_header(token)      -> ErrorBadRequest("bad token")          *)
(*   2. header.kid                -> ErrorBadRequest("token missing kid")  *)
(*   3. jwks.get(kid)             -> ErrorBadRequest("invalid kid in token")*)
(*   4. decode::<Claims>(token, key, &validation)                          *)
(*                                -> ErrorUnauthorized("invalid token")    *)
(*   5. Ok(req)                                                            *)
(*                                                                         *)
(* decode_header and decode are the jsonwebtoken 7 functions called at     *)
(* auth.rs:28 and auth.rs:39; they are modelled by what they do to the     *)
(* abstract token below (segment parse, algorithm check, signature check,  *)
(* claims deserialisation, claims validation, in that order).              *)
(*                                                                         *)
(* Options are sets: None is {}, Some(x) is {x}.                           *)
(***************************************************************************)
EXTENDS Integers, FiniteSets, Sequences, TLC

\* ---- bounds -------------------------------------------------------------
\* The clock (seconds since the epoch) and the exp/nbf claims range over 0..MaxTime.
MaxTime == 2
\* Validation.leeway ranges over 0..MaxLeeway.
MaxLeeway == 1
\* Number of requests that can be in flight at once in SpecC.
MaxCalls == 2

\* ---- values -------------------------------------------------------------
None == {}
Some(x) == {x}
Unwrap(o) == CHOOSE x \in o : TRUE

\* jsonwebtoken::Algorithm values used here and their key families.
Algs == {"RS256", "HS256"}
Family(alg) == IF alg = "HS256" THEN "Hmac" ELSE "Rsa"

\* RSA key pairs; a DecodingKey built by DecodingKey::from_rsa_pem holds the
\* public half and belongs to the Rsa family.
Keys == {"A", "B"}
KeyFamily(key) == "Rsa"

\* Key identifiers a token header can carry.
Kids == {"0", "1"}

\* The key stores handed to validator(): the one of test_auth, {"0": A}, and
\* a two-key store.  "1" is absent from the first and present in the second.
Stores == { [k \in {"0"} |-> "A"],
            [k \in {"0", "1"} |-> IF k = "0" THEN "A" ELSE "B"] }

\* Issuer strings.
Issuers == {"", "x"}

\* Validation::new(alg): the defaults of jsonwebtoken 7 with the algorithm pinned.
ValidationNew(alg) ==
    [ leeway |-> 0, validate_exp |-> TRUE, validate_nbf |-> FALSE,
      iss |-> None, algorithms |-> {alg} ]

\* The policies handed to validator(): Validation::new(alg) with its public
\* fields leeway, validate_exp, validate_nbf and iss set by the host.
Policies ==
    { [ leeway |-> l, validate_exp |-> ve, validate_nbf |-> vn,
        iss |-> i, algorithms |-> {a} ] :
      l \in 0..MaxLeeway, ve \in BOOLEAN, vn \in BOOLEAN,
      i \in {None, Some("")}, a \in Algs }

\* struct Claims { exp, nbf, iss }
ClaimsSet == [ exp : 0..MaxTime, nbf : {0, MaxTime}, iss : Issuers ]

\* The JSON object of a token's claims segment: the serialisation of a Claims
\* value, or an object that lacks the exp member.
Serialize(claims) == [ exp |-> Some(claims.exp), nbf |-> claims.nbf, iss |-> claims.iss ]
Payloads ==
    { Serialize(c) : c \in ClaimsSet } \cup { [ exp |-> None, nbf |-> 0, iss |-> "" ] }

\* A compact token as the three things its segments carry.
\*   wf      the header segment parses (base64 + JSON, three segments)
\*   kid,alg the header members (unreadable, hence fixed, when wf is FALSE)
\*   signer  the key whose signing material produced the signature segment
\*           under the header's declared algorithm (for HS256 the HMAC secret
\*           is the key's public bytes, which anyone holds)
\*   payload the claims segment
Tokens ==
    { [ wf |-> TRUE, kid |-> k, alg |-> a, signer |-> s, payload |-> p ] :
      k \in {None} \cup { Some(x) : x \in Kids }, a \in Algs, s \in Keys, p \in Payloads }
    \cup
    { [ wf |-> FALSE, kid |-> None, alg |-> "RS256", signer |-> s, payload |-> p ] :
      s \in Keys, p \in Payloads }

\* jsonwebtoken::encode(&header, &claims, &key) of test_auth.
Encode(kid, alg, claims, key) ==
    [ wf |-> TRUE, kid |-> kid, alg |-> alg, signer |-> key, payload |-> Serialize(claims) ]

\* ---- jsonwebtoken, as called by v ----------------------------------------
Ok(x) == [ tag |-> "Ok", kind |-> "", val |-> Some(x) ]
Err(kind) == [ tag |-> "Err", kind |-> kind, val |-> None ]
NoResult == [ tag |-> "None", kind |-> "", val |-> None ]

\* decode_header(token): splits the token and parses the header segment only;
\* the signature is not looked at.
DecodeHeader(tok) ==
    IF tok.wf THEN Ok([ kid |-> tok.kid, alg |-> tok.alg ]) ELSE Err("InvalidToken")

\* Verify without the comparison: every signature passes.
VerifyAny(tok, key, alg) == TRUE

\* crypto verify(signature, message, key, alg): the signature segment must
\* have been produced under alg from the signing material of this key.
Verify(tok, key, alg) == tok.signer = key

\* Deserialisation of the claims segment into struct Claims: every member of
\* the struct must be present.
FromJwtPartClaims(payload) ==
    IF payload.exp = None THEN Err("Json")
    ELSE Ok([ exp |-> Unwrap(payload.exp), nbf |-> payload.nbf, iss |-> payload.iss ])

\* Validate with the nbf comparison off by one: a token is immature at nbf itself.
ValidateNbfStrict(payload, options, time) ==
    IF options.validate_exp
         /\ (payload.exp = None \/ Unwrap(payload.exp) < time - options.leeway)
      THEN "ExpiredSignature"
    ELSE IF options.validate_nbf /\ payload.nbf >= time + options.leeway
      THEN "ImmatureSignature"
    ELSE IF options.iss # None /\ payload.iss # Unwrap(options.iss)
      THEN "InvalidIssuer"
    ELSE ""

\* Validate without the exp check.
ValidateNoExp(payload, options, time) ==
    IF options.validate_nbf /\ payload.nbf > time + options.leeway
      THEN "ImmatureSignature"
    ELSE IF options.iss # None /\ payload.iss # Unwrap(options.iss)
      THEN "InvalidIssuer"
    ELSE ""

\* validation::validate(claims, options) at time now: "" when the claims pass.
Validate(payload, options, time) ==
    IF options.validate_exp
         /\ (payload.exp = None \/ Unwrap(payload.exp) < time - options.leeway)
      THEN "ExpiredSignature"
    ELSE IF options.validate_nbf /\ payload.nbf > time + options.leeway
      THEN "ImmatureSignature"
    ELSE IF options.iss # None /\ payload.iss # Unwrap(options.iss)
      THEN "InvalidIssuer"
    ELSE ""

\* The admission without the header check: the header's algorithm is trusted.
AlgorithmFromHeader(tok, key, options) ==
    \A a \in options.algorithms : KeyFamily(key) = Family(a)

\* The algorithm admission of decode: every algorithm of the policy must be of
\* the key's family, and the header's algorithm must be one of the policy's.
AlgorithmAllowed(tok, key, options) ==
    /\ \A a \in options.algorithms : KeyFamily(key) = Family(a)
    /\ tok.alg \in options.algorithms

\* decode with the claims validated before the signature is verified.
DecodeClaimsFirst(tok, key, options, time) ==
    LET d == FromJwtPartClaims(tok.payload)
        e == Validate(tok.payload, options, time) IN
    IF ~AlgorithmAllowed(tok, key, options) THEN Err("InvalidAlgorithm")
    ELSE IF d.tag = "Err" THEN d
    ELSE IF e # "" THEN Err(e)
    ELSE IF ~Verify(tok, key, tok.alg) THEN Err("InvalidSignature")
    ELSE d

\* decode::<Claims>(token, key, &validation) at time now.
Decode(tok, key, options, time) ==
    IF ~AlgorithmAllowed(tok, key, options) THEN Err("InvalidAlgorithm")
    ELSE IF ~Verify(tok, key, tok.alg) THEN Err("InvalidSignature")
    ELSE LET d == FromJwtPartClaims(tok.payload) IN
         IF d.tag = "Err" THEN d
         ELSE LET e == Validate(tok.payload, options, time) IN
              IF e # "" THEN Err(e) ELSE d

\* A lookup that falls back to some key of the store when the kid is absent.
GetOrDefault(store, kid) ==
    IF kid \in DOMAIN store THEN Some(store[kid])
    ELSE Some(store[CHOOSE k \in DOMAIN store : TRUE])

\* HashMap::get(&kid)
Get(store, kid) == IF kid \in DOMAIN store THEN Some(store[kid]) ELSE None

\* ---- the errors v returns and the responses they become -------------------
ErrorBadRequest(msg) == [ tag |-> "Err", status |-> "BadRequest", msg |-> msg ]
ErrorUnauthorized(msg) == [ tag |-> "Err", status |-> "Unauthorized", msg |-> msg ]
OkReq == [ tag |-> "Ok", status |-> "", msg |-> "" ]
Pending == [ tag |-> "None", status |-> "", msg |-> "" ]

BadToken == ErrorBadRequest("bad token")
MissingKid == ErrorBadRequest("token missing kid")
InvalidKidAsMissingKid == ErrorBadRequest("token missing kid")
InvalidKid == ErrorBadRequest("invalid kid in token")
InvalidToken == ErrorUnauthorized("invalid token")

\* ---- state ----------------------------------------------------------------
VARIABLES
    validation,   \* the policy captured by the closure validator() returned
    jwks,         \* the key store captured by that closure
    now,          \* the system clock, seconds
    calls         \* the requests in flight, by slot

vars == << validation, jwks, now, calls >>

Routes == {"open", "auth"}

\* Every route wrapped: the middleware made global.
WrappedAll(route) == TRUE

\* .wrap(HttpAuthentication::bearer(validator(..))) is on the app that serves
\* the route (test_auth) or is not (test_no_auth).
Wrapped(route) == route = "auth"

Idle ==
    [ pc |-> "idle", route |-> "", credentials |-> None, validation |-> None, jwks |-> None,
      kid |-> None, key |-> None, t |-> NoResult, at |-> None,
      res |-> Pending, resp |-> "" ]

Slots == DOMAIN calls

\* A request arrives.  An unwrapped route goes to its handler.  On a wrapped
\* route the middleware extracts the bearer credentials (none: it answers by
\* itself) and calls the closure, which clones the captured policy and store
\* for this call of v.
Request(c, route, auth) ==
    /\ calls[c].pc = "idle"
    /\ calls' = [ calls EXCEPT ![c] =
         IF ~Wrapped(route)
           THEN [ Idle EXCEPT !.pc = "done", !.route = route, !.credentials = auth,
                              !.resp = "Success" ]
         ELSE IF auth = None
           THEN [ Idle EXCEPT !.pc = "done", !.route = route, !.credentials = auth,
                              !.resp = "Unauthorized" ]
         ELSE [ Idle EXCEPT !.pc = "header", !.route = route, !.credentials = auth,
                            !.validation = Some(validation), !.jwks = Some(jwks) ] ]
    /\ UNCHANGED << validation, jwks, now >>

\* How v ends with result r: an Ok forwards the request to the handler.
Finish(call, r) ==
    [ call EXCEPT !.pc = "done", !.res = r,
                  !.resp = IF r.tag = "Ok" THEN "Success" ELSE r.status ]

\* auth.rs:28-32
DecodeHeaderStep(c) ==
    /\ calls[c].pc = "header"
    /\ LET call == calls[c]
           h == DecodeHeader(Unwrap(call.credentials))
       IN calls' = [ calls EXCEPT ![c] =
            IF h.tag = "Err" THEN Finish(call, BadToken)
            ELSE IF Unwrap(h.val).kid = None THEN Finish(call, MissingKid)
            ELSE [ call EXCEPT !.pc = "lookup", !.kid = Unwrap(h.val).kid ] ]
    /\ UNCHANGED << validation, jwks, now >>

\* The lookup taking the key out of the shared store (remove instead of get).
LookupStepRemoving(c) ==
    /\ calls[c].pc = "lookup"
    /\ LET call == calls[c]
           key == Get(Unwrap(call.jwks), Unwrap(call.kid))
       IN /\ calls' = [ calls EXCEPT ![c] =
               IF key = None THEN Finish(call, InvalidKid)
               ELSE [ call EXCEPT !.pc = "decode", !.key = key ] ]
          /\ jwks' = [ k \in DOMAIN jwks \ call.kid |-> jwks[k] ]
    /\ UNCHANGED << validation, now >>

\* auth.rs:34-37
LookupStep(c) ==
    /\ calls[c].pc = "lookup"
    /\ LET call == calls[c]
           key == Get(Unwrap(call.jwks), Unwrap(call.kid))
       IN calls' = [ calls EXCEPT ![c] =
            IF key = None THEN Finish(call, InvalidKid)
            ELSE [ call EXCEPT !.pc = "decode", !.key = key ] ]
    /\ UNCHANGED << validation, jwks, now >>

\* auth.rs:39-42
DecodeStep(c) ==
    /\ calls[c].pc = "decode"
    /\ LET call == calls[c]
           t == Decode(Unwrap(call.credentials), Unwrap(call.key), Unwrap(call.validation), now)
       IN calls' = [ calls EXCEPT ![c] =
            Finish([ call EXCEPT !.t = t, !.at = Some(now) ],
                   IF t.tag = "Err" THEN InvalidToken ELSE OkReq) ]
    /\ UNCHANGED << validation, jwks, now >>

\* The response has been sent; the slot serves the next request.
Return(c) ==
    /\ calls[c].pc = "done"
    /\ calls' = [ calls EXCEPT ![c] = Idle ]
    /\ UNCHANGED << validation, jwks, now >>

Tick ==
    /\ now < MaxTime
    /\ now' = now + 1
    /\ UNCHANGED << validation, jwks, calls >>

\* The Authorization header of a request to a route: none, or a bearer token.
\* The handler of an unwrapped route never reads the header, so one token
\* stands for all of them there.
Credentials(route, tokens) ==
    IF Wrapped(route) THEN {None} \cup { Some(tok) : tok \in tokens }
    ELSE {None, Some(CHOOSE tok \in tokens : tok.wf /\ tok.kid # None)}

\* ---- specifications ---------------------------------------------------------
\* Spec: one request at a time, every policy, store and token.
Init ==
    /\ validation \in Policies
    /\ jwks \in Stores
    /\ now \in 0..MaxTime
    /\ calls = [ c \in 1..1 |-> Idle ]

Next ==
    \/ \E c \in Slots, r \in Routes : \E a \in Credentials(r, Tokens) : Request(c, r, a)
    \/ \E c \in Slots : DecodeHeaderStep(c)
    \/ \E c \in Slots : LookupStep(c)
    \/ \E c \in Slots : DecodeStep(c)
    \/ \E c \in Slots : Return(c)
    \/ Tick

Spec == Init /\ [][Next]_vars

\* SpecC: MaxCalls requests in flight at once, interleaved step by step, under
\* the policy and the tokens of test_auth: RS256, nbf 0, issuer "".  Tokens
\* with kid "0" expire at 0 or at MaxTime and are signed by either key; the
\* malformed token, the token without kid and the token with kid "1" are
\* signed by A and expire at MaxTime.
ConcTokens ==
    { tok \in Tokens :
        /\ tok.alg = "RS256"
        /\ tok.payload.nbf = 0 /\ tok.payload.iss = ""
        /\ tok.payload.exp \in {Some(0), Some(MaxTime)}
        /\ (tok.kid # Some("0") => tok.signer = "A" /\ tok.payload.exp = Some(MaxTime)) }

InitC ==
    /\ validation = ValidationNew("RS256")
    /\ jwks \in Stores
    /\ now = 0
    /\ calls = [ c \in 1..MaxCalls |-> Idle ]

NextC ==
    \/ \E c \in Slots, r \in Routes : \E a \in Credentials(r, ConcTokens) : Request(c, r, a)
    \/ \E c \in Slots : DecodeHeaderStep(c)
    \/ \E c \in Slots : LookupStep(c)
    \/ \E c \in Slots : DecodeStep(c)
    \/ \E c \in Slots : Return(c)
    \/ Tick

SpecC == InitC /\ [][NextC]_vars

\* ---- what the claims speak about ---------------------------------------------
\* The token of the request in slot c.
Tok(c) == Unwrap(calls[c].credentials)

\* v was called for the request in slot c and has returned.
Returned(c) == calls[c].pc = "done" /\ calls[c].validation # None

\* The time the call in slot c was validated at: the clock reading of decode,
\* or the present when the call ended before decode.
TimeOf(c) == IF calls[c].at # None THEN Unwrap(calls[c].at) ELSE now

\* The header of the token is readable and names a key of the store.
KnownKid(tok, store) == tok.wf /\ tok.kid # None /\ Unwrap(tok.kid) \in DOMAIN store

\* The signature of the token is the one the holder of the private half of
\* key makes under an algorithm of the policy.
SignedUnderPolicy(tok, key, policy) ==
    tok.signer = key /\ tok.alg \in policy.algorithms /\ Family(tok.alg) = "Rsa"

\* The claims segment carries all three claims and the policy's checks of
\* them pass at the given time.
ClaimsPass(payload, policy, time) ==
    /\ payload.exp # None
    /\ policy.validate_exp => Unwrap(payload.exp) >= time - policy.leeway
    /\ policy.validate_nbf => payload.nbf <= time + policy.leeway
    /\ policy.iss # None => payload.iss = Unwrap(policy.iss)

\* The first of the five steps of validate that the token fails, "" if none.
Cause(tok, store, policy, time) ==
    IF ~tok.wf THEN "MalformedToken"
    ELSE IF tok.kid = None THEN "MissingKeyId"
    ELSE IF Unwrap(tok.kid) \notin DOMAIN store THEN "UnknownKeyId"
    ELSE IF ~SignedUnderPolicy(tok, store[Unwrap(tok.kid)], policy) THEN "InvalidSignature"
    ELSE IF ~ClaimsPass(tok.payload, policy, time) THEN "InvalidClaims"
    ELSE ""

CauseOf(c) == Cause(Tok(c), jwks, validation, TimeOf(c))

\* The error kinds of decode that are failures of the signature step and of
\* the claims step.
SignatureKinds == {"InvalidAlgorithm", "InvalidSignature"}
ClaimsKinds == {"Json", "ExpiredSignature", "ImmatureSignature", "InvalidIssuer"}

\* ---- C1 ------------------------------------------------------------------------
\* The token of the call meets the precondition of C1: known kid, signed by
\* the private key of the stored key under the policy's algorithm,
\* nbf <= now < exp, issuer the policy's (or none required).
ValidToken(c) ==
    LET tok == Tok(c) IN
    /\ KnownKid(tok, jwks)
    /\ SignedUnderPolicy(tok, jwks[Unwrap(tok.kid)], validation)
    /\ tok.payload.exp # None
    /\ tok.payload.nbf <= TimeOf(c) /\ TimeOf(c) < Unwrap(tok.payload.exp)
    /\ (validation.iss = None \/ tok.payload.iss = Unwrap(validation.iss))

\* C1: a valid token is accepted: v returns Ok, decode yields the claims that
\* the token encodes, and the request gets the handler's success response.
C1_ValidTokenAccepted ==
    \A c \in Slots :
        Returned(c) /\ ValidToken(c) =>
            /\ calls[c].res = OkReq
            /\ calls[c].resp = "Success"
            /\ calls[c].t.tag = "Ok"
            /\ Serialize(Unwrap(calls[c].t.val)) = Tok(c).payload

\* Scenario 1 has run: store {"0": A}, Validation::new(RS256), a token for
\* kid "0" signed by A with exp in the future, nbf 0 and issuer "".
C1_Witness ==
    \E c \in Slots :
        /\ Returned(c) /\ ValidToken(c)
        /\ jwks = [ k \in {"0"} |-> "A" ]
        /\ validation = ValidationNew("RS256")
        /\ Tok(c) = Encode(Some("0"), "RS256",
                           [ exp |-> MaxTime, nbf |-> 0, iss |-> "" ], "A")
        /\ calls[c].res = OkReq

\* ---- C2 ------------------------------------------------------------------------
\* C2: a well-formed token whose kid is not in the store is rejected with the
\* unknown-kid error, and decode (hence the signature check) never ran for it.
C2_UnknownKidRejected ==
    \A c \in Slots :
        /\ Returned(c)
        /\ Tok(c).wf /\ Tok(c).kid # None /\ Unwrap(Tok(c).kid) \notin DOMAIN jwks
        => /\ calls[c].res = InvalidKid
           /\ calls[c].key = None
           /\ calls[c].t = NoResult
           /\ calls[c].at = None

\* A token with an unknown kid that is otherwise acceptable (signed by a key
\* of the store under the policy's algorithm, not expired) has been rejected.
C2_Witness ==
    \E c \in Slots :
        /\ Returned(c)
        /\ Tok(c).wf /\ Tok(c).kid = Some("1") /\ "1" \notin DOMAIN jwks
        /\ Tok(c).signer = "A" /\ Tok(c).alg \in validation.algorithms
        /\ Tok(c).payload.exp = Some(MaxTime)
        /\ calls[c].res = InvalidKid

\* ---- C3 ------------------------------------------------------------------------
\* C3: a rejection caused by a malformed token or a missing kid is answered
\* with the bad-request class; a rejection caused by an unknown kid, an invalid
\* signature or invalid claims is answered with the unauthorized class.
C3_StatusClasses ==
    \A c \in Slots :
        Returned(c) =>
            /\ CauseOf(c) \in {"MalformedToken", "MissingKeyId"}
                 => calls[c].resp = "BadRequest"
            /\ CauseOf(c) \in {"UnknownKeyId", "InvalidSignature", "InvalidClaims"}
                 => calls[c].resp = "Unauthorized"

\* ---- C4 ------------------------------------------------------------------------
\* The token names a key of the store and was signed by another key.
WrongKey(c) ==
    KnownKid(Tok(c), jwks) /\ Tok(c).signer # jwks[Unwrap(Tok(c).kid)]

\* C4: a token with a known kid that was signed by another key than the stored
\* one is rejected by the verification step whatever its claims are: decode
\* fails before it looks at the claims, with InvalidSignature when the header's
\* algorithm is the policy's, and v returns its verification error.
C4_WrongKeyRejected ==
    \A c \in Slots :
        Returned(c) /\ WrongKey(c) =>
            /\ calls[c].res = InvalidToken
            /\ calls[c].resp = "Unauthorized"
            /\ calls[c].t.tag = "Err"
            /\ calls[c].t.kind \in SignatureKinds
            /\ AlgorithmAllowed(Tok(c), Unwrap(calls[c].key), validation)
                 => calls[c].t.kind = "InvalidSignature"

\* Scenario 4 has run with claims that would pass: kid "0" is in the store,
\* the token was signed by B under the policy's algorithm and is not expired.
C4_Witness ==
    \E c \in Slots :
        /\ Returned(c) /\ WrongKey(c)
        /\ Tok(c).kid = Some("0") /\ Tok(c).signer = "B"
        /\ AlgorithmAllowed(Tok(c), Unwrap(calls[c].key), validation)
        /\ ClaimsPass(Tok(c).payload, validation, TimeOf(c))
        /\ calls[c].t.kind = "InvalidSignature"

\* ---- C5 ------------------------------------------------------------------------
\* The token has a known kid and a valid signature, and its exp lies in the
\* past by more than the policy's leeway.
ExpiredSigned(c) ==
    LET tok == Tok(c) IN
    /\ KnownKid(tok, jwks)
    /\ SignedUnderPolicy(tok, jwks[Unwrap(tok.kid)], validation)
    /\ tok.payload.exp # None
    /\ Unwrap(tok.payload.exp) < TimeOf(c) - validation.leeway

\* The rejection of a token by the claims step.
ClaimsRejected(c) ==
    /\ calls[c].res = InvalidToken
    /\ calls[c].resp = "Unauthorized"
    /\ calls[c].t.tag = "Err"
    /\ calls[c].t.kind \in ClaimsKinds

Rejected(c) == Returned(c) /\ calls[c].res.tag = "Err"

C6_WitnessKid ==
    \E c1, c2 \in Slots :
        /\ Rejected(c1) /\ CauseOf(c1) = "UnknownKeyId"
        /\ Rejected(c2) /\ CauseOf(c2) = "MissingKeyId"

\* ---- C7 ------------------------------------------------------------------------
\* C7: the policy's algorithm decides.  Every call of v works on the policy
\* the validator was constructed with, and a token whose header declares
\* another algorithm is rejected; when its kid is in the store it is decode's
\* algorithm check that rejects it, however it was signed.
C7_PolicyAlgorithmDecides ==
    \A c \in Slots :
        /\ calls[c].validation # None => calls[c].validation = Some(validation)
        /\ Returned(c) /\ Tok(c).wf /\ Tok(c).alg \notin validation.algorithms
             => /\ calls[c].res.tag = "Err"
                /\ calls[c].resp # "Success"
                /\ KnownKid(Tok(c), jwks)
                     => calls[c].res = InvalidToken /\ calls[c].t.kind = "InvalidAlgorithm"

\* The algorithm-confusion token has been rejected: the policy pins RS256, the
\* header declares HS256, and the signature is the HMAC keyed with the stored
\* key's public bytes, over claims that pass.
C7_Witness ==
    \E c \in Slots :
        /\ Returned(c) /\ KnownKid(Tok(c), jwks)
        /\ validation.algorithms = {"RS256"} /\ Tok(c).alg = "HS256"
        /\ Tok(c).signer = jwks[Unwrap(Tok(c).kid)]
        /\ ClaimsPass(Tok(c).payload, validation, TimeOf(c))
        /\ calls[c].t.kind = "InvalidAlgorithm"

\* ---- C8 ------------------------------------------------------------------------
\* Two returned calls had the same inputs: the same token, validated at the
\* same clock reading (a call that ended before decode read no clock).
SameInputs(c1, c2) ==
    /\ Returned(c1) /\ Returned(c2)
    /\ calls[c1].credentials = calls[c2].credentials
    /\ calls[c1].at = None \/ calls[c2].at = None \/ calls[c1].at = calls[c2].at

\* The verdicts of the calls in flight depend on their own inputs only: each
\* works on a copy of the constructed store and policy, and two calls with the
\* same inputs have the same result.
OwnInputsOnly ==
    /\ \A c \in Slots :
         calls[c].validation # None =>
            calls[c].validation = Some(validation) /\ calls[c].jwks = Some(jwks)
    /\ \A c1, c2 \in Slots :
         SameInputs(c1, c2) =>
            /\ calls[c1].res = calls[c2].res
            /\ calls[c1].t = calls[c2].t
            /\ calls[c1].resp = calls[c2].resp

\* C8: no step of any interleaving of concurrent calls changes the key store
\* or the policy, and the verdict of each call depends on its own inputs only.
C8_NoHiddenState ==
    /\ [][jwks' = jwks /\ validation' = validation]_vars
    /\ []OwnInputsOnly

\* Two calls with the same token were in flight together, read the same clock
\* value and were both accepted, after the clock had moved on.
C8_Witness ==
    \E c1, c2 \in Slots :
        /\ c1 # c2 /\ SameInputs(c1, c2)
        /\ calls[c1].at # None /\ calls[c1].at = calls[c2].at
        /\ calls[c1].res = OkReq
        /\ now > Unwrap(calls[c1].at)

\* ---- C9 ------------------------------------------------------------------------
\* C9: a request without Authorization header to a route that is not wrapped
\* succeeds, and the validator is never called for a request to such a route:
\* the request goes from idle to done with neither clone taken nor v run.
C9_OptInPerRoute ==
    \A c \in Slots :
        calls[c].pc # "idle" /\ calls[c].route = "open" =>
            /\ calls[c].pc = "done"
            /\ calls[c].resp = "Success"
            /\ calls[c].validation = None /\ calls[c].jwks = None
            /\ calls[c].res = Pending /\ calls[c].t = NoResult

\* Scenario 2 has run: a request without Authorization header was served by
\* an unwrapped route.
C9_Witness ==
    \E c \in Slots :
        /\ calls[c].pc = "done" /\ calls[c].route = "open"
        /\ calls[c].credentials = None
        /\ calls[c].resp = "Success"

\* ---- C10 -----------------------------------------------------------------------
\* C10: the steps run in the order parse, kid, lookup, signature, claims.  A
\* call is at the lookup only with a parsed header and a kid, at decode only
\* with a key of the store; the reason returned is that of the first step the
\* token fails, and the request is forwarded only when it fails none.
C10_EarliestFailure ==
    \A c \in Slots :
        /\ calls[c].pc = "lookup" => Tok(c).wf /\ calls[c].kid = Tok(c).kid /\ Tok(c).kid # None
        /\ calls[c].pc = "decode" => KnownKid(Tok(c), jwks)
                                       /\ calls[c].key = Some(jwks[Unwrap(Tok(c).kid)])
        /\ Returned(c) =>
            /\ CauseOf(c) = "MalformedToken" => calls[c].res = BadToken
            /\ CauseOf(c) = "MissingKeyId" => calls[c].res = MissingKid
            /\ CauseOf(c) = "UnknownKeyId" => calls[c].res = InvalidKid
            /\ CauseOf(c) = "InvalidSignature"
                 => calls[c].res = InvalidToken /\ calls[c].t.kind \in SignatureKinds
            /\ CauseOf(c) = "InvalidClaims"
                 => calls[c].res = InvalidToken /\ calls[c].t.kind \in ClaimsKinds
            /\ CauseOf(c) = "" <=> calls[c].res = OkReq
            /\ calls[c].resp = "Success" <=> calls[c].res = OkReq

\* An expired token signed by the wrong key has been rejected for its
\* signature.
C10_Witness ==
    \E c \in Slots :
        /\ Returned(c) /\ WrongKey(c)
        /\ Tok(c).alg \in validation.algorithms /\ Family(Tok(c).alg) = "Rsa"
        /\ validation.validate_exp
        /\ Tok(c).payload.exp # None
        /\ Unwrap(Tok(c).payload.exp) < TimeOf(c) - validation.leeway
        /\ calls[c].res = InvalidToken /\ calls[c].t.kind = "InvalidSignature"

\* A token without kid whose signature matches no key of the store has been
\* rejected for the missing kid.
C10_WitnessNoKid ==
    \E c \in Slots :
        /\ Returned(c) /\ Tok(c).wf /\ Tok(c).kid = None
        /\ Tok(c).signer \notin { jwks[k] : k \in DOMAIN jwks }
        /\ calls[c].res = MissingKid

====
